---- MODULE Spec2Model ----
(***************************************************************************)
(* Sistema de Gestion de Inventario (Tpfinalentregapython.py).             *)
(*                                                                         *)
(* GestorInventario keeps one SQLite table, productos, and the console     *)
(* controller (main and the opcion_* handlers) drives it.  The table is    *)
(* modelled as the set of its rows, each an id and the five stored fields, *)
(* together with the AUTOINCREMENT counter SQLite keeps for it.            *)
(*                                                                         *)
(* Python's None is the empty set and a present value v is {v}, so that    *)
(* "absent" and "the empty string" stay different values.                  *)
(***************************************************************************)
EXTENDS Integers, Sequences, FiniteSets, TLC

\* ------------------------------------------------------------- bounds
\* Largest id the AUTOINCREMENT counter hands out in the model.
MaxId == 2
\* Quantities supplied by callers range over 0..MaxCantidad.
MaxCantidad == 1

\* ------------------------------------------------------------- values
None == {}
Some(v) == {v}
Get(o) == CHOOSE v \in o : TRUE

Textos == {"", "Pro"}
Cantidades == 0..MaxCantidad
Precios == {1, 2}
\* Ids a caller may name: the ones the table can hold and one it never holds.
IdsPedidos == 1..(MaxId + 1)
Limites == -1..(MaxCantidad + 1)

Campos == {"nombre", "descripcion", "cantidad", "precio", "categoria"}

Datos == [nombre : Textos, descripcion : Textos, cantidad : Cantidades,
          precio : Precios, categoria : Textos]

\* The optional arguments of actualizar_producto: None or a new value.
Opt(S) == {None} \cup {Some(v) : v \in S}
Parches == [nombre : Opt(Textos), descripcion : Opt(Textos),
            cantidad : Opt(Cantidades), precio : Opt(Precios),
            categoria : Opt(Textos)]

\* The arguments the callers of the model pass to the operations that write:
\* one of two products to registrar_producto, and to actualizar_producto a
\* patch of no field, of the quantity, of name and price, or of every field.
Bajo == [nombre |-> "", descripcion |-> "", cantidad |-> 0, precio |-> 1,
         categoria |-> ""]
Alto == [nombre |-> "Pro", descripcion |-> "Pro", cantidad |-> MaxCantidad,
         precio |-> 2, categoria |-> "Pro"]
Muestras == {Bajo, Alto}
ParchesDeMuestra ==
    {p \in Parches :
        /\ {c \in Campos : p[c] # None}
              \in {{}, {"cantidad"}, {"nombre", "precio"}, Campos}
        /\ \A c \in Campos \ {"cantidad"} : p[c] \in {None, Some(Bajo[c])}
        /\ p.cantidad \in {None, Some(0), Some(MaxCantidad)}}

\* The storage call of an operation that fails with sqlite3.Error, if any.
\* In actualizar_producto and eliminar_producto the existence check is a call
\* of buscar_producto_por_id, whose own storage calls are named "buscar.*".
SinFalla == "ninguna"
Fallas == {SinFalla, "connect", "execute", "commit",
           "buscar.connect", "buscar.execute"}
\* The calls a SELECT operation makes, and the ones registrar_producto makes.
FallasDeConsulta == {SinFalla, "connect", "execute"}
FallasDeRegistro == {SinFalla, "connect", "execute", "commit"}

\* tabla     : the rows of table productos, each [id, nombre, ..., categoria]
\* secuencia : the largest id AUTOINCREMENT has handed out (sqlite_sequence)
\* ult       : the store operation the last step ran last, if it ran one: its
\*             name, what it returned, whether an exception left it, and
\*             how many connections it opened and did not close
VARIABLES tabla, secuencia, ult

\* pc        : the input() call the console is blocked in ("menu", "pausa",
\*             "<dialog>.<prompt>"), "fin" after the exit selection, "caida"
\*             after an exception nobody caught
\* loc       : the local variables of the sub-dialog in progress
\* entrada   : the last line read and the prompt it answered
\* msg       : the outcome the console printed after that line
\* llamadas  : the store operations the console called after that line
\* excepcion : the exception that ended the process, if any
VARIABLES pc, loc, entrada, msg, llamadas, excepcion

consola == <<pc, loc, entrada, msg, llamadas, excepcion>>
vars == <<tabla, secuencia, ult, pc, loc, entrada, msg, llamadas, excepcion>>

\* ------------------------------------------------------------- the table
Fila(id, d) ==
    [id |-> id, nombre |-> d.nombre, descripcion |-> d.descripcion,
     cantidad |-> d.cantidad, precio |-> d.precio, categoria |-> d.categoria]

DatosDe(r) ==
    [nombre |-> r.nombre, descripcion |-> r.descripcion,
     cantidad |-> r.cantidad, precio |-> r.precio, categoria |-> r.categoria]

IdsDe(t) == {r.id : r \in t}

\* The rows of a SELECT, in the table's own order (ascending rowid).
RECURSIVE EnOrden(_)
EnOrden(t) ==
    IF t = {} THEN <<>>
    ELSE LET r == CHOOSE x \in t : \A y \in t : x.id <= y.id
         IN  <<r>> \o EnOrden(t \ {r})

Filas(s) == {s[i] : i \in 1..Len(s)}

\* What a store operation leaves behind: the table and counter after it, the
\* value it returned (when no exception left it), and the connections it
\* opened without closing.
Resultado(t, s, v, esc, ab) ==
    [tabla |-> t, secuencia |-> s, valor |-> v, escapa |-> esc, abiertas |-> ab]

\* nombre LIKE '%x%' over Textos: "" is contained in every text, and a
\* non-empty text of Textos only in itself.
Like(x, texto) == x = "" \/ x = texto

\* ------------------------------------------------------------- GestorInventario
\* An id taken from the number of rows: ids of deleted rows come back.
IdPorConteo(t, s) == Cardinality(t) + 1

\* The id AUTOINCREMENT gives the next row: one more than any id ever used.
SiguienteId(t, s) == s + 1

\* registrar_producto with descripcion and categoria in each other's place
\* in the VALUES tuple.
registrar_campos_cruzados(t, s, d, f) ==
    IF f = "connect" THEN Resultado(t, s, FALSE, FALSE, 0)
    ELSE IF f \in {"execute", "commit"} THEN Resultado(t, s, FALSE, FALSE, 1)
    ELSE Resultado(t \cup {Fila(s + 1, [d EXCEPT !.descripcion = d.categoria,
                                                !.categoria = d.descripcion])},
                   s + 1, TRUE, FALSE, 0)

\* registrar_producto: everything is inside try, so an sqlite3.Error at any
\* call yields False; conn.close() is only reached after a commit.
registrar_producto(t, s, d, f) ==
    IF f = "connect" THEN Resultado(t, s, FALSE, FALSE, 0)
    ELSE IF f \in {"execute", "commit"} THEN Resultado(t, s, FALSE, FALSE, 1)
    ELSE Resultado(t \cup {Fila(SiguienteId(t, s), d)}, SiguienteId(t, s),
                   TRUE, FALSE, 0)

\* The SELECT operations have no try: an sqlite3.Error leaves them as an
\* exception (v is then never returned), and conn.close() is skipped when
\* it is raised after connect.
Consulta(t, s, v, f) ==
    IF f = "connect" THEN Resultado(t, s, v, TRUE, 0)
    ELSE IF f = "execute" THEN Resultado(t, s, v, TRUE, 1)
    ELSE Resultado(t, s, v, FALSE, 0)

visualizar_productos(t, s, f) == Consulta(t, s, EnOrden(t), f)

\* fetchone(): the first matching row, or None.
buscar_producto_por_id(t, s, id, f) ==
    LET hallados == {r \in t : r.id = id}
    IN  Consulta(t, s,
                 IF hallados = {} THEN None ELSE Some(EnOrden(hallados)[1]),
                 f)

buscar_productos_por_nombre(t, s, nombre, f) ==
    Consulta(t, s, EnOrden({r \in t : Like(nombre, r.nombre)}), f)

buscar_productos_por_categoria(t, s, categoria, f) ==
    Consulta(t, s, EnOrden({r \in t : Like(categoria, r.categoria)}), f)

\* The report with "cantidad < ?" in place of "cantidad <= ?".
reporte_estricto(t, s, limite, f) ==
    Consulta(t, s, EnOrden({r \in t : r.cantidad < limite}), f)

reporte_bajo_stock(t, s, limite, f) ==
    Consulta(t, s, EnOrden({r \in t : r.cantidad <= limite}), f)

\* The storage call that fails inside the existence check of
\* actualizar_producto and eliminar_producto.
FallaDeBuscar(f) ==
    IF f = "buscar.connect" THEN "connect"
    ELSE IF f = "buscar.execute" THEN "execute"
    ELSE SinFalla

\* The truthiness test "if nombre:" in place of "if nombre is not None:":
\* an empty text and a zero count as absent.
campos_por_verdad(p) ==
    {c \in Campos : p[c] # None /\ p[c] # Some("") /\ p[c] # Some(0)}

\* campos_actualizar: the columns of the SET clause, one per argument that
\* is not None.
campos_actualizar(p) == {c \in Campos : p[c] # None}

\* UPDATE productos SET <campos> WHERE id = ?, on one row: the columns of
\* the SET clause take the bound values, the others keep theirs.
FilaActualizada(r, p) ==
    LET campos == campos_actualizar(p)
        nuevo(c) == IF c \in campos THEN Get(p[c]) ELSE r[c]
    IN  [id |-> r.id, nombre |-> nuevo("nombre"),
         descripcion |-> nuevo("descripcion"), cantidad |-> nuevo("cantidad"),
         precio |-> nuevo("precio"), categoria |-> nuevo("categoria")]

actualizar_producto(t, s, id, p, f) ==
    LET b == buscar_producto_por_id(t, s, id, FallaDeBuscar(f))
    IN  IF b.escapa THEN Resultado(t, s, FALSE, TRUE, b.abiertas)
        ELSE IF b.valor = None THEN Resultado(t, s, FALSE, FALSE, 0)
        ELSE IF f = "connect" THEN Resultado(t, s, FALSE, FALSE, 0)
        ELSE IF campos_actualizar(p) = {} THEN Resultado(t, s, FALSE, FALSE, 1)
        ELSE IF f \in {"execute", "commit"}
             THEN Resultado(t, s, FALSE, FALSE, 1)
        ELSE Resultado({IF r.id = id THEN FilaActualizada(r, p) ELSE r :
                            r \in t},
                       s, TRUE, FALSE, 0)

\* eliminar_producto without the existence check: a DELETE that matches no
\* row is reported as a success.
eliminar_sin_verificar(t, s, id, f) ==
    IF f \in {"connect"} THEN Resultado(t, s, FALSE, FALSE, 0)
    ELSE IF f \in {"execute", "commit"} THEN Resultado(t, s, FALSE, FALSE, 1)
    ELSE Resultado({r \in t : r.id # id}, s, TRUE, FALSE, 0)

eliminar_producto(t, s, id, f) ==
    LET b == buscar_producto_por_id(t, s, id, FallaDeBuscar(f))
    IN  IF b.escapa THEN Resultado(t, s, FALSE, TRUE, b.abiertas)
        ELSE IF b.valor = None THEN Resultado(t, s, FALSE, FALSE, 0)
        ELSE IF f = "connect" THEN Resultado(t, s, FALSE, FALSE, 0)
        ELSE IF f \in {"execute", "commit"}
             THEN Resultado(t, s, FALSE, FALSE, 1)
        ELSE Resultado({r \in t : r.id # id}, s, TRUE, FALSE, 0)

\* ------------------------------------------------------------- console input
\* The lines typed at the menu, at the search sub-menu and at the
\* confirmation prompt; "7" and "" are not options, "N", "si" and "" are
\* not confirmations.
\* The name, the description and the category typed when registering.
LineasAlRegistrar == {"Pro"}
LineasMenu == {"0", "1", "2", "3", "4", "5", "6", "7", ""}
LineasBuscar == {"1", "2", "3", "7"}
LineasConfirmacion == {"S", "s", "N", "si", ""}

\* int() and float() of a line: the number it is the decimal text of, over
\* the numbers the model's prompts are answered with; any other line
\* raises ValueError.
Numeros == -1..(MaxId + MaxCantidad + 2)
Decimal == [n \in Numeros |-> ToString(n)]
EsNumero(linea) == \E n \in Numeros : Decimal[n] = linea
int(linea) == CHOOSE n \in Numeros : Decimal[n] = linea

\* The lines typed at a prompt for a number out of S: the numbers of S, an
\* empty line and a line that is no number.
LineasDe(S) == {Decimal[n] : n \in S} \cup {"", "abc"}

\* str.upper() on the lines of LineasConfirmacion.
upper(linea) ==
    CASE linea = "s" -> "S"
      [] linea = "si" -> "SI"
      [] OTHER -> linea

\* input(...) or None: an empty line is falsy.
o_None(linea) == IF linea = "" THEN None ELSE Some(linea)

SinOperacion == [op |-> "", valor |-> FALSE, escapa |-> FALSE, abiertas |-> 0]

SinLocales ==
    [id |-> None, nombre |-> None, descripcion |-> None, cantidad |-> None,
     precio |-> None]

\* ------------------------------------------------------------- calls of the store
\* crear_tabla on a new database: no rows, no id handed out yet.
Init ==
    /\ tabla = {}
    /\ secuencia = 0
    /\ ult = [op |-> "crear_tabla", valor |-> TRUE, escapa |-> FALSE,
              abiertas |-> 0]
    /\ pc = "menu"
    /\ loc = SinLocales
    /\ entrada = [pregunta |-> "", linea |-> ""]
    /\ msg = ""
    /\ llamadas = <<>>
    /\ excepcion = ""

\* A store operation has run: the table and counter are the ones it left and
\* ult records what the caller saw of it.
Efecto(op, res) ==
    /\ tabla' = res.tabla
    /\ secuencia' = res.secuencia
    /\ ult' = [op |-> op, valor |-> res.valor, escapa |-> res.escapa,
               abiertas |-> res.abiertas]

\* A call of the store from outside the console.
Llamada(op, res) == Efecto(op, res) /\ UNCHANGED consola

Registrar(d, f) ==
    /\ secuencia < MaxId
    /\ Llamada("registrar_producto", registrar_producto(tabla, secuencia, d, f))

Visualizar(f) ==
    Llamada("visualizar_productos", visualizar_productos(tabla, secuencia, f))

BuscarPorId(id, f) ==
    Llamada("buscar_producto_por_id",
            buscar_producto_por_id(tabla, secuencia, id, f))

BuscarPorNombre(x, f) ==
    Llamada("buscar_productos_por_nombre",
            buscar_productos_por_nombre(tabla, secuencia, x, f))

BuscarPorCategoria(x, f) ==
    Llamada("buscar_productos_por_categoria",
            buscar_productos_por_categoria(tabla, secuencia, x, f))

Actualizar(id, p, f) ==
    Llamada("actualizar_producto",
            actualizar_producto(tabla, secuencia, id, p, f))

Eliminar(id, f) ==
    Llamada("eliminar_producto", eliminar_producto(tabla, secuencia, id, f))

ReporteBajoStock(limite, f) ==
    Llamada("reporte_bajo_stock",
            reporte_bajo_stock(tabla, secuencia, limite, f))

\* The store called directly, on working storage.
Next ==
    \/ \E d \in Muestras : Registrar(d, SinFalla)
    \/ Visualizar(SinFalla)
    \/ \E id \in IdsPedidos : BuscarPorId(id, SinFalla)
    \/ \E x \in Textos : BuscarPorNombre(x, SinFalla)
    \/ \E x \in Textos : BuscarPorCategoria(x, SinFalla)
    \/ \E id \in IdsPedidos, p \in ParchesDeMuestra :
          Actualizar(id, p, SinFalla)
    \/ \E id \in IdsPedidos : Eliminar(id, SinFalla)
    \/ \E limite \in Limites : ReporteBajoStock(limite, SinFalla)

Spec == Init /\ [][Next]_vars

\* ------------------------------------------------------------- the console
\* One step of the console: the line read at the prompt pc, and the code
\* run up to the next input() (or to the end of the process).

\* The step calls no store operation.
SinLlamada(linea, npc, nloc, nmsg) ==
    /\ pc' = npc /\ loc' = nloc /\ msg' = nmsg
    /\ entrada' = [pregunta |-> pc, linea |-> linea]
    /\ llamadas' = <<>>
    /\ excepcion' = ""
    /\ ult' = SinOperacion
    /\ UNCHANGED <<tabla, secuencia>>

\* An exception nobody catches: the traceback is printed and the process ends.
Caida(linea, exc) ==
    /\ pc' = "caida" /\ loc' = SinLocales /\ msg' = "traceback"
    /\ entrada' = [pregunta |-> pc, linea |-> linea]
    /\ llamadas' = <<>>
    /\ excepcion' = exc
    /\ ult' = SinOperacion
    /\ UNCHANGED <<tabla, secuencia>>

\* The step calls the store operations ops one after the other, the last of
\* which leaves res; an exception that leaves an operation leaves the
\* handler and main too.
ConLlamadas(linea, ops, res, npc, nloc, nmsg) ==
    /\ Efecto(ops[Len(ops)], res)
    /\ entrada' = [pregunta |-> pc, linea |-> linea]
    /\ llamadas' = ops
    /\ IF res.escapa
       THEN pc' = "caida" /\ loc' = SinLocales /\ msg' = "traceback"
            /\ excepcion' = "sqlite3.Error"
       ELSE pc' = npc /\ loc' = nloc /\ msg' = nmsg /\ excepcion' = ""

\* The step calls one store operation.
ConLlamada(linea, op, res, npc, nloc, nmsg) ==
    ConLlamadas(linea, <<op>>, res, npc, nloc, nmsg)

\* obtener_entero and obtener_decimal: the number, or None after the error
\* message when int() or float() raises ValueError.
obtener_entero(linea) == IF EsNumero(linea) THEN Some(int(linea)) ELSE None
obtener_decimal(linea) == IF EsNumero(linea) THEN Some(int(linea)) ELSE None

\* main: the menu selection.
Menu(linea, f) ==
    /\ pc = "menu"
    /\ CASE linea = "1" ->
              /\ secuencia < MaxId
              /\ SinLlamada(linea, "reg.nombre", SinLocales, "")
         [] linea = "2" ->
              LET res == visualizar_productos(tabla, secuencia, f)
              IN  ConLlamada(linea, "visualizar_productos", res, "pausa",
                             SinLocales,
                             IF res.valor = <<>> THEN "sin_productos"
                             ELSE "listado")
         [] linea = "3" -> SinLlamada(linea, "bus.opcion", SinLocales, "")
         [] linea = "4" -> SinLlamada(linea, "act.id", SinLocales, "")
         [] linea = "5" -> SinLlamada(linea, "eli.id", SinLocales, "")
         [] linea = "6" -> SinLlamada(linea, "rep.limite", SinLocales, "")
         [] linea = "0" -> SinLlamada(linea, "fin", SinLocales, "despedida")
         [] OTHER -> SinLlamada(linea, "pausa", SinLocales, "opcion_invalida")

\* main: "Presione Enter para continuar...", then the menu again.
Pausa(linea) ==
    /\ pc = "pausa"
    /\ SinLlamada(linea, "menu", SinLocales, "")

\* opcion_registrar.
RegistrarNombre(linea) ==
    /\ pc = "reg.nombre"
    /\ SinLlamada(linea, "reg.descripcion",
                  [loc EXCEPT !.nombre = Some(linea)], "")

RegistrarDescripcion(linea) ==
    /\ pc = "reg.descripcion"
    /\ SinLlamada(linea, "reg.cantidad",
                  [loc EXCEPT !.descripcion = Some(linea)], "")

RegistrarCantidad(linea) ==
    /\ pc = "reg.cantidad"
    /\ IF obtener_entero(linea) = None
       THEN SinLlamada(linea, "pausa", SinLocales, "error_entero")
       ELSE SinLlamada(linea, "reg.precio",
                       [loc EXCEPT !.cantidad = obtener_entero(linea)], "")

RegistrarPrecio(linea) ==
    /\ pc = "reg.precio"
    /\ IF obtener_decimal(linea) = None
       THEN SinLlamada(linea, "pausa", SinLocales, "error_decimal")
       ELSE SinLlamada(linea, "reg.categoria",
                       [loc EXCEPT !.precio = obtener_decimal(linea)], "")

RegistrarCategoria(linea, f) ==
    /\ pc = "reg.categoria"
    /\ LET d == [nombre |-> Get(loc.nombre),
                 descripcion |-> Get(loc.descripcion),
                 cantidad |-> Get(loc.cantidad), precio |-> Get(loc.precio),
                 categoria |-> linea]
           res == registrar_producto(tabla, secuencia, d, f)
       IN  ConLlamada(linea, "registrar_producto", res, "pausa", SinLocales,
                      IF res.valor THEN "registrado" ELSE "error_registrar")

\* opcion_buscar.
BuscarOpcion(linea) ==
    /\ pc = "bus.opcion"
    /\ CASE linea = "1" -> SinLlamada(linea, "bus.id", loc, "")
         [] linea = "2" -> SinLlamada(linea, "bus.nombre", loc, "")
         [] linea = "3" -> SinLlamada(linea, "bus.categoria", loc, "")
         [] OTHER -> SinLlamada(linea, "pausa", SinLocales, "opcion_invalida")

BuscarId(linea, f) ==
    /\ pc = "bus.id"
    /\ IF obtener_entero(linea) = None
       THEN SinLlamada(linea, "pausa", SinLocales, "error_entero")
       ELSE LET res == buscar_producto_por_id(tabla, secuencia,
                                              Get(obtener_entero(linea)), f)
            IN  ConLlamada(linea, "buscar_producto_por_id", res, "pausa",
                           SinLocales,
                           IF res.valor # None THEN "encontrado"
                           ELSE "no_encontrado")

BuscarNombre(linea, f) ==
    /\ pc = "bus.nombre"
    /\ LET res == buscar_productos_por_nombre(tabla, secuencia, linea, f)
       IN  ConLlamada(linea, "buscar_productos_por_nombre", res, "pausa",
                      SinLocales,
                      IF res.valor # <<>> THEN "encontrados"
                      ELSE "no_encontrado")

BuscarCategoria(linea, f) ==
    /\ pc = "bus.categoria"
    /\ LET res == buscar_productos_por_categoria(tabla, secuencia, linea, f)
       IN  ConLlamada(linea, "buscar_productos_por_categoria", res, "pausa",
                      SinLocales,
                      IF res.valor # <<>> THEN "encontrados"
                      ELSE "no_encontrado")

\* The id prompt of opcion_actualizar and opcion_eliminar: obtener_entero,
\* then buscar_producto_por_id; the dialog goes on at prompt sigue when the
\* product exists.
PedirId(linea, f, sigue) ==
    IF obtener_entero(linea) = None
    THEN SinLlamada(linea, "pausa", SinLocales, "error_entero")
    ELSE LET res == buscar_producto_por_id(tabla, secuencia,
                                           Get(obtener_entero(linea)), f)
         IN  IF res.valor = None
             THEN ConLlamada(linea, "buscar_producto_por_id", res, "pausa",
                             SinLocales, "no_existe")
             ELSE ConLlamada(linea, "buscar_producto_por_id", res, sigue,
                             [loc EXCEPT !.id = obtener_entero(linea)], "")

\* opcion_actualizar.
ActualizarId(linea, f) ==
    /\ pc = "act.id"
    /\ PedirId(linea, f, "act.nombre")

ActualizarNombre(linea) ==
    /\ pc = "act.nombre"
    /\ SinLlamada(linea, "act.descripcion",
                  [loc EXCEPT !.nombre = o_None(linea)], "")

ActualizarDescripcion(linea) ==
    /\ pc = "act.descripcion"
    /\ SinLlamada(linea, "act.cantidad",
                  [loc EXCEPT !.descripcion = o_None(linea)], "")

\* int(cantidad_input) if cantidad_input else None, outside any try.
ActualizarCantidad(linea) ==
    /\ pc = "act.cantidad"
    /\ IF linea = ""
       THEN SinLlamada(linea, "act.precio", [loc EXCEPT !.cantidad = None], "")
       ELSE IF EsNumero(linea)
       THEN SinLlamada(linea, "act.precio",
                       [loc EXCEPT !.cantidad = Some(int(linea))], "")
       ELSE Caida(linea, "ValueError")

\* float(precio_input) if precio_input else None, outside any try.
ActualizarPrecio(linea) ==
    /\ pc = "act.precio"
    /\ IF linea = ""
       THEN SinLlamada(linea, "act.categoria", [loc EXCEPT !.precio = None], "")
       ELSE IF EsNumero(linea)
       THEN SinLlamada(linea, "act.categoria",
                       [loc EXCEPT !.precio = Some(int(linea))], "")
       ELSE Caida(linea, "ValueError")

\* The last prompt, then actualizar_producto and, when it succeeds,
\* buscar_producto_por_id to show the product.
ActualizarCategoria(linea, f, g) ==
    /\ pc = "act.categoria"
    /\ LET id == Get(loc.id)
           p == [nombre |-> loc.nombre, descripcion |-> loc.descripcion,
                 cantidad |-> loc.cantidad, precio |-> loc.precio,
                 categoria |-> o_None(linea)]
           res == actualizar_producto(tabla, secuencia, id, p, f)
           ver == buscar_producto_por_id(res.tabla, res.secuencia, id, g)
       IN  IF res.escapa \/ ~res.valor
           THEN ConLlamada(linea, "actualizar_producto", res, "pausa",
                           SinLocales, "error_actualizar")
           ELSE ConLlamadas(linea,
                            <<"actualizar_producto", "buscar_producto_por_id">>,
                            ver, "pausa", SinLocales, "actualizado")

\* opcion_eliminar.
EliminarId(linea, f) ==
    /\ pc = "eli.id"
    /\ PedirId(linea, f, "eli.confirmacion")

\* The confirmation test as "anything but N": every other answer deletes.
EliminarSalvoN(linea, f) ==
    /\ pc = "eli.confirmacion"
    /\ IF upper(linea) # "N"
       THEN LET res == eliminar_producto(tabla, secuencia, Get(loc.id), f)
            IN  ConLlamada(linea, "eliminar_producto", res, "pausa",
                           SinLocales,
                           IF res.valor THEN "eliminado" ELSE "error_eliminar")
       ELSE SinLlamada(linea, "pausa", SinLocales, "cancelada")

EliminarConfirmacion(linea, f) ==
    /\ pc = "eli.confirmacion"
    /\ IF upper(linea) = "S"
       THEN LET res == eliminar_producto(tabla, secuencia, Get(loc.id), f)
            IN  ConLlamada(linea, "eliminar_producto", res, "pausa",
                           SinLocales,
                           IF res.valor THEN "eliminado" ELSE "error_eliminar")
       ELSE SinLlamada(linea, "pausa", SinLocales, "cancelada")

\* opcion_reporte_bajo_stock.
ReporteLimite(linea, f) ==
    /\ pc = "rep.limite"
    /\ IF obtener_entero(linea) = None
       THEN SinLlamada(linea, "pausa", SinLocales, "error_entero")
       ELSE LET res == reporte_bajo_stock(tabla, secuencia,
                                          Get(obtener_entero(linea)), f)
            IN  ConLlamada(linea, "reporte_bajo_stock", res, "pausa",
                           SinLocales,
                           IF res.valor = <<>> THEN "sin_bajo_stock"
                           ELSE "alerta")

\* The console session: every line the operator may type at the prompt the
\* process is blocked in, on storage that may fail at any call.
NextConsola ==
    \/ \E linea \in LineasMenu \ {"2"} : Menu(linea, SinFalla)
    \/ \E f \in FallasDeConsulta : Menu("2", f)
    \/ \E linea \in {""} : Pausa(linea)
    \/ \E linea \in LineasAlRegistrar : RegistrarNombre(linea)
    \/ \E linea \in LineasAlRegistrar : RegistrarDescripcion(linea)
    \/ \E linea \in LineasDe(Cantidades) : RegistrarCantidad(linea)
    \/ \E linea \in LineasDe(Precios) : RegistrarPrecio(linea)
    \/ \E linea \in LineasAlRegistrar, f \in FallasDeRegistro :
          RegistrarCategoria(linea, f)
    \/ \E linea \in LineasBuscar : BuscarOpcion(linea)
    \/ \E linea \in LineasDe(IdsPedidos), f \in FallasDeConsulta :
          BuscarId(linea, f)
    \/ \E linea \in Textos, f \in FallasDeConsulta : BuscarNombre(linea, f)
    \/ \E linea \in Textos, f \in FallasDeConsulta :
          BuscarCategoria(linea, f)
    \/ \E linea \in LineasDe(IdsPedidos), f \in FallasDeConsulta :
          ActualizarId(linea, f)
    \/ \E linea \in Textos : ActualizarNombre(linea)
    \/ \E linea \in Textos : ActualizarDescripcion(linea)
    \/ \E linea \in LineasDe(Cantidades) : ActualizarCantidad(linea)
    \/ \E linea \in LineasDe(Precios) : ActualizarPrecio(linea)
    \/ \E linea \in Textos, f \in Fallas, g \in FallasDeConsulta :
          ActualizarCategoria(linea, f, g)
    \/ \E linea \in LineasDe(IdsPedidos), f \in FallasDeConsulta :
          EliminarId(linea, f)
    \/ \E linea \in LineasConfirmacion, f \in Fallas :
          EliminarConfirmacion(linea, f)
    \/ \E linea \in LineasDe(Limites), f \in FallasDeConsulta :
          ReporteLimite(linea, f)

SpecConsola == Init /\ [][NextConsola]_vars

\* ------------------------------------------------------------- properties of the store
\* What a caller asks of actualizar_producto(id, p) on table t, given the
\* result res: success exactly for a known id and a patch that provides a
\* field; on success the row of that id has the provided values and keeps
\* the others, and the other rows are as they were; on failure nothing changed.
ActualizaBien(t, id, p, res) ==
    LET existe == \E r \in t : r.id = id
        provee == \E c \in Campos : p[c] # None
    IN  /\ ~res.escapa
        /\ res.valor <=> (existe /\ provee)
        /\ res.valor =>
              /\ \A r \in t : r.id # id => r \in res.tabla
              /\ \A r \in res.tabla : r.id # id => r \in t
              /\ \A r \in t : r.id = id =>
                    \E n \in res.tabla :
                        /\ n.id = id
                        /\ \A c \in Campos :
                              n[c] = IF p[c] = None THEN r[c] ELSE Get(p[c])
              /\ Cardinality(res.tabla) = Cardinality(t)
        /\ ~res.valor => res.tabla = t

\* C1: for every state of the store and every update(id, patch) whose fields
\* are each absent or provided, update succeeds exactly when the id exists
\* and a field is provided; then the record has every provided value, keeps
\* every other field and its id, and no other record changes; when it fails
\* no record changes.
C1_ActualizacionParcial ==
    \A id \in IdsPedidos, p \in Parches :
        ActualizaBien(tabla, id, p,
                      actualizar_producto(tabla, secuencia, id, p, SinFalla))

\* An update of some but not all fields has succeeded on a table of two
\* records, and one that provides an empty text and a zero would change it.
C1_Testigo ==
    /\ ult.op = "actualizar_producto"
    /\ ult.valor
    /\ Cardinality(tabla) = 2
    /\ \E id \in IdsDe(tabla), p \in Parches :
          /\ p.nombre = None /\ p.descripcion = Some("")
          /\ p.cantidad = Some(0)
          /\ actualizar_producto(tabla, secuencia, id, p, SinFalla).tabla
                # tabla

\* fetchone() of get_by_id(id) on the table a result left.
Hallado(res, id) ==
    buscar_producto_por_id(res.tabla, res.secuencia, id, SinFalla).valor

\* C2: for every state of the store and every id, delete of an id with no
\* record fails and leaves the records as they were; delete of an existing
\* id succeeds, removes that record and no other, and get_by_id of the id
\* then reports not-found.
C2_Eliminar ==
    \A id \in IdsPedidos :
        LET res == eliminar_producto(tabla, secuencia, id, SinFalla)
        IN  /\ ~res.escapa
            /\ id \notin IdsDe(tabla) => ~res.valor /\ res.tabla = tabla
            /\ id \in IdsDe(tabla) =>
                  /\ res.valor
                  /\ \A r \in tabla : r \in res.tabla <=> r.id # id
                  /\ res.tabla \subseteq tabla
                  /\ Hallado(res, id) = None

\* A delete has succeeded and left another record in place.
C2_Testigo ==
    /\ ult.op = "eliminar_producto"
    /\ ult.valor
    /\ Cardinality(tabla) = 1
    /\ secuencia = MaxId

\* The integer Python and sqlite3 read a bool as: True is 1, False is 0.
ComoEntero(b) == IF b THEN 1 ELSE 0

\* C3 as stated: the value create returns is an id, and fetching by it
\* yields the record with exactly the five values supplied.
C3_IdDevuelto ==
    \A d \in Datos :
        LET res == registrar_producto(tabla, secuencia, d, SinFalla)
            h == Hallado(res, ComoEntero(res.valor))
        IN  h # None /\ DatosDe(Get(h)) = d

\* C3: after any sequence of create, update and delete, creating a product
\* succeeds, adds one id to the ids present, and fetching by that id (the
\* one the store assigned; create itself returns only True) yields a record
\* whose five fields are exactly the values supplied.
C3_RegistrarYBuscar ==
    \A d \in Datos :
        LET res == registrar_producto(tabla, secuencia, d, SinFalla)
            nuevos == IdsDe(res.tabla) \ IdsDe(tabla)
        IN  /\ ~res.escapa /\ res.valor
            /\ Cardinality(nuevos) = 1
            /\ \A id \in nuevos :
                  /\ Hallado(res, id) # None
                  /\ Get(Hallado(res, id)).id = id
                  /\ DatosDe(Get(Hallado(res, id))) = d

\* A product has been registered after the first one was deleted: it is the
\* only record and its id is not the deleted one.
C3_Testigo ==
    /\ ult.op = "registrar_producto"
    /\ ult.valor
    /\ IdsDe(tabla) = {MaxId}

\* C4: in every state reached by create, update and delete no two records
\* share an id; a create gives the new record an id no record has; an
\* update leaves every record under the id it had.
C4_IdUnicoYEstable ==
    /\ \A r1, r2 \in tabla : r1.id = r2.id => r1 = r2
    /\ \A d \in Datos :
          LET res == registrar_producto(tabla, secuencia, d, SinFalla)
          IN  /\ Cardinality(res.tabla) = Cardinality(tabla) + 1
              /\ Cardinality(IdsDe(res.tabla)) = Cardinality(res.tabla)
    /\ \A id \in IdsPedidos, p \in Parches :
          LET res == actualizar_producto(tabla, secuencia, id, p, SinFalla)
          IN  /\ IdsDe(res.tabla) = IdsDe(tabla)
              /\ Cardinality(res.tabla) = Cardinality(tabla)

\* An update has succeeded on a table of two records that hold the same
\* values under different ids.
C4_Testigo ==
    /\ Cardinality(tabla) = 2
    /\ \E r1, r2 \in tabla : r1.id # r2.id /\ DatosDe(r1) = DatosDe(r2)
    /\ ult.op = "actualizar_producto"
    /\ ult.valor

\* C5: for every state of the store and every threshold, the low-stock
\* report returns each product whose quantity is at most the threshold
\* once and no other product, returns nothing when the threshold is below
\* every quantity, and leaves the store as it was.
C5_ReporteBajoStock ==
    \A limite \in Limites :
        LET res == reporte_bajo_stock(tabla, secuencia, limite, SinFalla)
        IN  /\ ~res.escapa
            /\ \A r \in tabla : r \in Filas(res.valor) <=> r.cantidad <= limite
            /\ Filas(res.valor) \subseteq tabla
            /\ Len(res.valor) = Cardinality(Filas(res.valor))
            /\ (\A r \in tabla : limite < r.cantidad) => res.valor = <<>>
            /\ res.tabla = tabla /\ res.secuencia = secuencia

\* A report has returned one of two records: the other is above the
\* threshold.
C5_Testigo ==
    /\ ult.op = "reporte_bajo_stock"
    /\ ~ult.escapa
    /\ Len(ult.valor) = 1
    /\ Cardinality(tabla) = 2

\* C8: when a store operation has returned, no connection it opened is
\* still open.
C8_ConexionLiberada == ult.abiertas = 0

\* ------------------------------------------------------------- properties of the console
\* The prompts that expect a number: obtener_entero, obtener_decimal and
\* the quantity and price prompts of the update dialog.
PreguntasNumericas ==
    {"reg.cantidad", "reg.precio", "bus.id", "act.id", "act.cantidad",
     "act.precio", "eli.id", "rep.limite"}

\* C6: after a response that is no number to a prompt that expects one, the
\* action is over, the controller is back in the main loop and the process
\* is running.  (An empty response to the quantity and price prompts of the
\* update dialog is the "keep the current value" answer, not an invalid one.)
C6_EntradaInvalida ==
    ( /\ entrada.pregunta \in PreguntasNumericas
      /\ ~EsNumero(entrada.linea)
      /\ ~(entrada.linea = ""
             /\ entrada.pregunta \in {"act.cantidad", "act.precio"}) )
    => pc = "pausa" /\ excepcion = ""

\* C7: no exception of the storage leaves a store operation, and none ends
\* the process.
C7_ExcepcionAtrapada == ~ult.escapa /\ excepcion # "sqlite3.Error"

\* The answers that confirm a deletion.
Confirma(linea) == linea \in {"S", "s"}

\* C9: the console calls the store's delete only in the step that reads the
\* confirmation token at the confirmation prompt and does call it then; on
\* any other answer, the empty one included, it calls no store operation,
\* reports the action as cancelled and leaves the store as it was.
C9_EliminarConfirmado ==
    [][ /\ (\E i \in 1..Len(llamadas') : llamadas'[i] = "eliminar_producto")
          => pc = "eli.confirmacion" /\ Confirma(entrada'.linea)
        /\ pc = "eli.confirmacion" /\ Confirma(entrada'.linea)
          => llamadas' = <<"eliminar_producto">>
        /\ pc = "eli.confirmacion" /\ ~Confirma(entrada'.linea)
          => /\ llamadas' = <<>>
             /\ msg' = "cancelada"
             /\ pc' = "pausa"
             /\ tabla' = tabla /\ secuencia' = secuencia ]_vars

\* An empty answer at the confirmation prompt has cancelled a deletion.
C9_Testigo ==
    /\ entrada = [pregunta |-> "eli.confirmacion", linea |-> ""]
    /\ msg = "cancelada"
    /\ tabla # {}

\* C10: the process ends only by the selection "0" at the menu.  Exceptions
\* of the storage, which are C7's, are left aside here.
C10_SoloSaleConCero ==
    (pc \in {"fin", "caida"} /\ excepcion # "sqlite3.Error")
    => pc = "fin" /\ entrada = [pregunta |-> "menu", linea |-> "0"]

\* C11: between two consecutive console inputs the console calls at most one
\* store operation (llamadas holds the calls made since the last line read).
C11_UnaOperacionPorEntrada == Len(llamadas) <= 1

====
